---- MODULE Spec2Model ----
(***************************************************************************)
(* Cart state machine (cartReducer), cart orchestrator (CartProvider,      *)
(* addToCart with optimistic update and rollback), the versioned           *)
(* localStorage persistence it hydrates from, and the useForm hook.        *)
(*                                                                         *)
(* JavaScript arrays are modelled as sequences, so indices are 1-based and *)
(* findIndex returns 0 where JavaScript returns -1.                        *)
(***************************************************************************)
EXTENDS Integers, Sequences, FiniteSets, TLC

VARIABLES
    cart,       \* the useReducer state of CartProvider
    storage,    \* localStorage: the item stored under each key
    calls,      \* the addToCart invocations, by call number
    pc,         \* "boot" before CartProvider mounts, then "ready" or "crashed"
    dispatched, \* the action last handed straight to cartReducer (SpecReducer)
    quota,      \* "ok", or "full" when localStorage.setItem throws
    returned,   \* the last call of saveToStorage/loadFromStorage (SpecStorage)
    form        \* the useForm hook: its state, its last render, its submissions

vars == <<cart, storage, calls, pc, dispatched, quota, returned, form>>

----------------------------------------------------------------------------
(* Bounds *)

MaxCalls == 2       \* addToCart invocations in one run
MaxAddQty == 2      \* largest quantity passed to one add
MaxLineQty == 3     \* largest quantity a line is allowed to grow to
MaxNegQty == 1      \* UpdateQuantity arguments range over -MaxNegQty..MaxLineQty

\* values Date.now() takes during a session (items of an earlier session
\* carry 0), and in the runs of the reducer on its own
Times == {1}

ReducerTimes == {1, 2}

AddQtys == 1..MaxAddQty

UpdateQtys == (0 - MaxNegQty)..MaxLineQty

----------------------------------------------------------------------------
(* Data model *)

STORAGE_VERSION == 1

\* the static product catalog: identity is id, price is immutable
Products ==
    { [id |-> "p1", price |-> 100],
      [id |-> "p2", price |-> 50],
      [id |-> "p3", price |-> 20] }

ProductIds == { p.id : p \in Products }

\* A JSON value read back from storage is tagged with its shape:
\*   "cart"    {items, totalItems, totalPrice}      (the Cart record)
\*   "legacy"  [item, ...]                          (bare array of items)
\*   "wrapped" {cart: [item, ...]}                  (v0 object, cart is an array)
\*   "wrappedCart" {cart: {items, totalItems, totalPrice}}
\*   "null", "undefined", "number"   JSON null, a missing property, a number
\*   "nan"       NaN, which JSON.stringify writes as null
\*   "circular"  an object JSON.stringify throws on
\* Only the "cart" shape has an `items` property.
MkCart(items, totalItems, totalPrice) ==
    [shape |-> "cart", items |-> items,
     totalItems |-> totalItems, totalPrice |-> totalPrice]

initialCart == MkCart(<< >>, 0, 0)

----------------------------------------------------------------------------
(* cartReducer *)

RECURSIVE findIndexFrom(_, _, _)
findIndexFrom(items, productId, i) ==
    IF i > Len(items) THEN 0
    ELSE IF items[i].product.id = productId THEN i
    ELSE findIndexFrom(items, productId, i + 1)

\* items.findIndex(item => item.product.id === productId); 0 when absent
findIndex(items, productId) == findIndexFrom(items, productId, 1)

RECURSIVE reduceQuantity(_)
reduceQuantity(items) ==
    IF items = << >> THEN 0
    ELSE reduceQuantity(SubSeq(items, 1, Len(items) - 1))
         + items[Len(items)].quantity

RECURSIVE reducePrice(_)
reducePrice(items) ==
    IF items = << >> THEN 0
    ELSE reducePrice(SubSeq(items, 1, Len(items) - 1))
         + items[Len(items)].product.price * items[Len(items)].quantity

calculateCartTotals(c) ==
    [c EXCEPT !.totalItems = reduceQuantity(c.items),
              !.totalPrice = reducePrice(c.items)]

\* items.filter((_, index) => index !== itemIndex)
filterIndex(items, itemIndex) ==
    [i \in 1..(Len(items) - 1) |->
        IF i < itemIndex THEN items[i] ELSE items[i + 1]]

RECURSIVE filterNotId(_, _)
\* items.filter(item => item.product.id !== productId)
filterNotId(items, productId) ==
    IF items = << >> THEN << >>
    ELSE IF Head(items).product.id = productId
         THEN filterNotId(Tail(items), productId)
         ELSE <<Head(items)>> \o filterNotId(Tail(items), productId)

\* ADD_ITEM that takes an existing line out and appends the merged line
ADD_ITEM_MoveToEnd(state, product, quantity, now) ==
    LET existingItemIndex == findIndex(state.items, product.id)
        newItems ==
            IF existingItemIndex > 0
            THEN Append(filterIndex(state.items, existingItemIndex),
                        [state.items[existingItemIndex] EXCEPT
                            !.quantity = @ + quantity])
            ELSE Append(state.items,
                        [product |-> product, quantity |-> quantity,
                         addedAt |-> now])
    IN calculateCartTotals([state EXCEPT !.items = newItems])

ADD_ITEM(state, product, quantity, now) ==
    LET existingItemIndex == findIndex(state.items, product.id)
        newItems ==
            IF existingItemIndex > 0
            THEN [index \in 1..Len(state.items) |->
                    IF index = existingItemIndex
                    THEN [state.items[index] EXCEPT
                            !.quantity = state.items[index].quantity + quantity]
                    ELSE state.items[index]]
            ELSE Append(state.items,
                        [product |-> product, quantity |-> quantity,
                         addedAt |-> now])
    IN calculateCartTotals([state EXCEPT !.items = newItems])

\* OPTIMISTIC_ADD that appends a line without looking for an existing one
OPTIMISTIC_ADD_Append(state, product, quantity, now) ==
    calculateCartTotals(
        [state EXCEPT !.items =
            Append(state.items, [product |-> product, quantity |-> quantity,
                                 addedAt |-> now])])


\* OPTIMISTIC_ADD that sets the quantity of an existing line instead of
\* adding to it
OPTIMISTIC_ADD_Overwrite(state, product, quantity, now) ==
    LET existingItemIndex == findIndex(state.items, product.id)
        newItems ==
            IF existingItemIndex > 0
            THEN [index \in 1..Len(state.items) |->
                    IF index = existingItemIndex
                    THEN [state.items[index] EXCEPT !.quantity = quantity]
                    ELSE state.items[index]]
            ELSE Append(state.items,
                        [product |-> product, quantity |-> quantity,
                         addedAt |-> now])
    IN calculateCartTotals([state EXCEPT !.items = newItems])


OPTIMISTIC_ADD(state, product, quantity, now) ==
    LET existingItemIndex == findIndex(state.items, product.id)
        newItems ==
            IF existingItemIndex > 0
            THEN [index \in 1..Len(state.items) |->
                    IF index = existingItemIndex
                    THEN [state.items[index] EXCEPT
                            !.quantity = state.items[index].quantity + quantity]
                    ELSE state.items[index]]
            ELSE Append(state.items,
                        [product |-> product, quantity |-> quantity,
                         addedAt |-> now])
    IN calculateCartTotals([state EXCEPT !.items = newItems])

\* ROLLBACK_ADD that looks the item up and returns the state all the same
ROLLBACK_ADD_Keep(state, productId) ==
    LET itemIndex == findIndex(state.items, productId)
    IN IF itemIndex = 0 THEN state ELSE calculateCartTotals(state)

\* ROLLBACK_ADD that takes one unit back and drops the line at zero
ROLLBACK_ADD_Decrement(state, productId) ==
    LET itemIndex == findIndex(state.items, productId)
    IN IF itemIndex = 0 THEN state
       ELSE IF state.items[itemIndex].quantity > 1
       THEN calculateCartTotals(
                [state EXCEPT !.items[itemIndex].quantity = @ - 1])
       ELSE calculateCartTotals(
                [state EXCEPT !.items = filterIndex(state.items, itemIndex)])

\* ROLLBACK_ADD that cuts the list at the item (slice instead of filter)
ROLLBACK_ADD_Slice(state, productId) ==
    LET itemIndex == findIndex(state.items, productId)
    IN IF itemIndex = 0 THEN state
       ELSE calculateCartTotals(
                [state EXCEPT !.items = SubSeq(state.items, 1, itemIndex - 1)])


ROLLBACK_ADD(state, productId) ==
    LET itemIndex == findIndex(state.items, productId)
    IN IF itemIndex = 0 THEN state
       ELSE calculateCartTotals(
                [state EXCEPT !.items = filterIndex(state.items, itemIndex)])

\* REMOVE_ITEM that fills the place of the removed line with the last line
REMOVE_ITEM_SwapRemove(state, productId) ==
    LET itemIndex == findIndex(state.items, productId)
        last == Len(state.items)
    IN IF itemIndex = 0 THEN calculateCartTotals(state)
       ELSE calculateCartTotals(
                [state EXCEPT !.items =
                    [i \in 1..(last - 1) |->
                        IF i = itemIndex THEN state.items[last]
                        ELSE state.items[i]]])

\* state.items.filter(item => item.product.id !== productId), then the totals
REMOVE_ITEM(state, productId) ==
    calculateCartTotals(
        [state EXCEPT !.items = filterNotId(state.items, productId)])

\* UPDATE_QUANTITY that patches the line without recomputing the totals
UPDATE_QUANTITY_Patched(state, productId, quantity) ==
    IF quantity <= 0
    THEN REMOVE_ITEM(state, productId)
    ELSE [state EXCEPT !.items =
            [i \in 1..Len(state.items) |->
                IF state.items[i].product.id = productId
                THEN [state.items[i] EXCEPT !.quantity = quantity]
                ELSE state.items[i]]]

\* UPDATE_QUANTITY that removes on a zero quantity only
UPDATE_QUANTITY_ZeroOnly(state, productId, quantity) ==
    IF quantity = 0
    THEN REMOVE_ITEM(state, productId)
    ELSE calculateCartTotals(
            [state EXCEPT !.items =
                [i \in 1..Len(state.items) |->
                    IF state.items[i].product.id = productId
                    THEN [state.items[i] EXCEPT !.quantity = quantity]
                    ELSE state.items[i]]])

\* UPDATE_QUANTITY that drops the line on a quantity <= 0 and keeps the totals
UPDATE_QUANTITY_RemoveStale(state, productId, quantity) ==
    IF quantity <= 0
    THEN [state EXCEPT !.items = filterNotId(state.items, productId)]
    ELSE calculateCartTotals(
            [state EXCEPT !.items =
                [i \in 1..Len(state.items) |->
                    IF state.items[i].product.id = productId
                    THEN [state.items[i] EXCEPT !.quantity = quantity]
                    ELSE state.items[i]]])

\* if (quantity <= 0) return cartReducer(state, REMOVE_ITEM); else map the
\* items, setting the quantity of the matching line, and recompute the totals
UPDATE_QUANTITY(state, productId, quantity) ==
    IF quantity <= 0
    THEN REMOVE_ITEM(state, productId)
    ELSE calculateCartTotals(
            [state EXCEPT !.items =
                [i \in 1..Len(state.items) |->
                    IF state.items[i].product.id = productId
                    THEN [state.items[i] EXCEPT !.quantity = quantity]
                    ELSE state.items[i]]])

CLEAR_CART(state) == initialCart

LOAD_CART(state, payload) == payload

----------------------------------------------------------------------------
(* Versioned localStorage persistence *)

\* The envelope's timestamp is written by saveToStorage and read by nothing;
\* it is left out of the stored item.

CART_STORAGE_KEY == "monnn_cart"

VERSION_KEY == "monnn_storage_version"

Keys == {CART_STORAGE_KEY, VERSION_KEY}

Value(shape) ==
    [shape |-> shape, items |-> << >>, totalItems |-> 0, totalPrice |-> 0]

NoData == Value("none")

Null == Value("null")

Undefined == Value("undefined")

\* what a thrown TypeError leaves in place of a value
TypeError == Value("TypeError")

\* localStorage.getItem(key) === null
Absent == [kind |-> "absent", version |-> 0, data |-> NoData]

\* a stored string that JSON.parse rejects
Corrupt == [kind |-> "corrupt", version |-> 0, data |-> NoData]

\* a stored string that parses to a value that is no envelope
Plain(value) == [kind |-> "plain", version |-> 0, data |-> value]

\* STORAGE_VERSION.toString()
VersionString == Plain(Value("number"))

\* the object {version, data, timestamp}
StorageData(version, data) ==
    [kind |-> "envelope", version |-> version, data |-> data]

\* JSON.stringify(storageData): NaN is written as null
JSON_stringify(storageData) ==
    [storageData EXCEPT !.data = IF @.shape = "nan" THEN Null ELSE @]

\* JSON.parse(json), or fallback when it throws
safeJsonParse(json, fallback) ==
    IF json.kind = "corrupt" THEN fallback ELSE json

\* migrations[0]: data.cart && !data.cart.items; reading data.cart throws
\* when data is null or undefined
migrations0(data) ==
    IF data.shape \in {"null", "undefined"} THEN TypeError
    ELSE IF data.shape = "wrapped"
    THEN [shape |-> "wrappedCart", items |-> data.items,
          totalItems |-> 0, totalPrice |-> 0]
    ELSE data

RECURSIVE migrateFrom(_, _)
migrateFrom(migratedData, v) ==
    IF v >= STORAGE_VERSION \/ migratedData = TypeError THEN migratedData
    ELSE migrateFrom(IF v = 0 THEN migrations0(migratedData) ELSE migratedData,
                     v + 1)

migrateData(data, fromVersion) == migrateFrom(data, fromVersion)

\* localStorage.setItem(key, value): throws when the quota is exceeded
setItem(store, key, value) ==
    IF quota = "full"
    THEN [store |-> store, threw |-> TRUE]
    ELSE [store |-> [store EXCEPT ![key] = value], threw |-> FALSE]

\* saveToStorage without its try/catch: the exception reaches the caller
saveToStorage_Uncaught(store, key, data) ==
    IF data.shape = "circular"
    THEN [store |-> store, threw |-> TRUE]
    ELSE LET first == setItem(store, key,
                              JSON_stringify(StorageData(STORAGE_VERSION, data)))
             second == setItem(first.store, VERSION_KEY, VersionString)
         IN IF first.threw THEN first ELSE second

\* saveToStorage that tags the envelope with version 0
saveToStorage_Untagged(store, key, data) ==
    IF data.shape = "circular"
    THEN [store |-> store, threw |-> FALSE]
    ELSE LET first == setItem(store, key, JSON_stringify(StorageData(0, data)))
             second == setItem(first.store, VERSION_KEY, VersionString)
         IN [store |-> IF first.threw THEN first.store ELSE second.store,
             threw |-> FALSE]

\* saveToStorage(key, data): the store it leaves, and whether it threw to its
\* caller (it never does: the catch block logs and returns)
saveToStorage(store, key, data) ==
    IF data.shape = "circular"
    THEN [store |-> store, threw |-> FALSE]
    ELSE LET first == setItem(store, key,
                              JSON_stringify(StorageData(STORAGE_VERSION, data)))
             second == setItem(first.store, VERSION_KEY, VersionString)
         IN [store |-> IF first.threw THEN first.store ELSE second.store,
             threw |-> FALSE]

\* loadFromStorage that never reads the stored item
loadFromStorage_Default(store, key, defaultValue) ==
    [result |-> defaultValue, store |-> store, migrated |-> FALSE]

\* loadFromStorage(key, defaultValue): the value returned, the store it
\* leaves (a migration writes the migrated data back) and whether it migrated
loadFromStorage(store, key, defaultValue) ==
    LET item == store[key]
        unchanged(result) ==
            [result |-> result, store |-> store, migrated |-> FALSE]
    IN IF item.kind = "absent" THEN unchanged(defaultValue)
       ELSE LET storageData == safeJsonParse(item, StorageData(0, defaultValue))
            IN IF storageData.kind = "plain"
               \* no envelope: null.version throws, any other value has an
               \* undefined version (not < STORAGE_VERSION) and data
               THEN IF storageData.data.shape = "null"
                    THEN unchanged(defaultValue)
                    ELSE unchanged(Undefined)
               ELSE IF storageData.version < STORAGE_VERSION
               THEN LET migratedData ==
                            migrateData(storageData.data, storageData.version)
                    IN IF migratedData = TypeError
                       THEN unchanged(defaultValue)
                       ELSE [result |-> migratedData,
                             store |-> saveToStorage(store, key,
                                                     migratedData).store,
                             migrated |-> TRUE]
               ELSE unchanged(storageData.data)

----------------------------------------------------------------------------
(* useForm: field configuration, validation rules and the hook's state *)

\* Strings are sequences of characters; "a" stands for any character that is
\* not white space.
Space == " "

RECURSIVE trimStart(_)
trimStart(value) ==
    IF value # << >> /\ Head(value) = Space THEN trimStart(Tail(value))
    ELSE value

RECURSIVE trimEnd(_)
trimEnd(value) ==
    IF value # << >> /\ value[Len(value)] = Space
    THEN trimEnd(SubSeq(value, 1, Len(value) - 1))
    ELSE value

\* String.prototype.trim
trim(value) == trimEnd(trimStart(value))

\* validationRules.required and validationRules.minLength, by their
\* validate functions and their default messages
required == [kind |-> "required", min |-> 0, message |-> "This field is required"]

minLength(min) ==
    [kind |-> "minLength", min |-> min,
     message |-> "Must be at least " \o ToString(min) \o " characters"]

validate(rule, value) ==
    IF rule.kind = "required" THEN Len(trim(value)) > 0
    ELSE Len(value) >= rule.min

\* the form the hook is configured with: a name that is required and has a
\* minimal length, and a message without rules
MinNameLength == 2

Fields == {"name", "message"}

NoRules == << >>

FormConfig ==
    [name |-> [initialValue |-> << >>,
               rules |-> <<required, minLength(MinNameLength)>>],
     message |-> [initialValue |-> <<"a">>, rules |-> NoRules]]

\* what the user may type into a field
InputValues ==
    [name |-> {<< >>, <<Space>>, <<"a">>, <<"a", "a">>},
     message |-> {<< >>, <<"a">>}]

\* what onSubmit may reject or throw with: an Error, or a value that is not
\* an Error
Failures ==
    {[isError |-> TRUE, message |-> "Network error"],
     [isError |-> FALSE, message |-> "none"]}

NoMessage == "null"

RECURSIVE firstFailure(_, _)
firstFailure(rules, value) ==
    IF rules = << >> THEN NoMessage
    ELSE IF ~validate(Head(rules), value) THEN Head(rules).message
    ELSE firstFailure(Tail(rules), value)

\* validateField(fieldName, value): the message of the first failing rule,
\* or null
validateField(fieldName, value) ==
    firstFailure(FormConfig[fieldName].rules, value)

\* an entry of the errors map: missing, set to undefined, or a FieldError
NoEntry == [kind |-> "missing", message |-> "", touched |-> FALSE]

UndefinedEntry == [kind |-> "undefined", message |-> "", touched |-> FALSE]

FieldError(message, touched) ==
    [kind |-> "error", message |-> message, touched |-> touched]

NoErrors == [fieldName \in Fields |-> NoEntry]

initialValues == [fieldName \in Fields |-> FormConfig[fieldName].initialValue]

\* validateForm that reports the form valid whatever its fields hold
validateForm_AlwaysValid(values) ==
    LET error(fieldName) == validateField(fieldName, values[fieldName])
    IN [newErrors |-> [fieldName \in Fields |->
                        IF error(fieldName) # NoMessage
                        THEN FieldError(error(fieldName), TRUE)
                        ELSE NoEntry],
        isValid |-> TRUE]

\* validateForm over the values of the render it was created in: the errors
\* it hands to setErrors (an entry for each failing field and for no other)
\* and the validity it returns
validateForm(values) ==
    LET error(fieldName) == validateField(fieldName, values[fieldName])
    IN [newErrors |-> [fieldName \in Fields |->
                        IF error(fieldName) # NoMessage
                        THEN FieldError(error(fieldName), TRUE)
                        ELSE NoEntry],
        isValid |-> \A fieldName \in Fields : error(fieldName) = NoMessage]

\* Object.values(errors).some(error => error?.message)
hasErrors(errors) ==
    \E fieldName \in Fields :
        errors[fieldName].kind = "error" /\ errors[fieldName].message # ""

MaxSubmits == 2     \* calls of onSubmit that are in flight together

SubmitIds == 1..MaxSubmits

\* a call of onSubmit: pending with the values it was given, or not made or
\* settled
NoSubmission == [status |-> "unused", values |-> initialValues]

NoEvent == [op |-> "none", validated |-> FALSE, called |-> FALSE, tick |-> 0]

\* what the callbacks created by a render read of its state: the values, which
\* fields are touched (errors[fieldName]?.touched), isSubmitting and whether
\* there is a submit error
Rendered(f) ==
    [values |-> f.values,
     touched |-> {fieldName \in Fields : f.errors[fieldName].touched},
     isSubmitting |-> f.isSubmitting,
     hasSubmitError |-> f.submitError # NoMessage]

\* the hook after its first render
NoForm ==
    [values |-> initialValues,
     errors |-> NoErrors,
     isSubmitting |-> FALSE,
     submitError |-> NoMessage,
     rendered |-> [values |-> initialValues, touched |-> {},
                   isSubmitting |-> FALSE, hasSubmitError |-> FALSE],
     submissions |-> [s \in SubmitIds |-> NoSubmission],
     event |-> NoEvent]

----------------------------------------------------------------------------
(* Initial states *)

NoProduct == [id |-> "none", price |-> 0]

NoAction == [type |-> "none", productId |-> "none", quantity |-> 0]

CallIds == 1..MaxCalls

\* One invocation of addToCart. product and quantity are its arguments
\* (quantity is dead once the call has settled and is cleared then);
\* successToasts, failureToasts and rollbacks count what the call has done:
\* the toasts it has emitted and the ROLLBACK_ADD actions it has dispatched;
\* overlapped holds the calls that were in flight when it was issued
UnusedCall ==
    [status |-> "unused", product |-> NoProduct, quantity |-> 0,
     overlapped |-> {}, successToasts |-> 0, failureToasts |-> 0,
     rollbacks |-> 0]

StoredItem(id, quantity) ==
    [product |-> CHOOSE p \in Products : p.id = id,
     quantity |-> quantity, addedAt |-> 0]

\* a stored cart: two of p1
CartA == MkCart(<<StoredItem("p1", 2)>>, 2, 200)

\* what the store may hold under the cart key when the provider mounts
InitialItems ==
    { Absent,
      Corrupt,
      \* a cart saved by an earlier session
      StorageData(1, MkCart(<<StoredItem("p1", 2)>>, 2, 200)),
      \* a hand-edited cart whose totals were not updated
      StorageData(1, MkCart(<<StoredItem("p1", 2)>>, 0, 0)),
      \* version-0 data: the legacy array, the legacy object
      StorageData(0, [shape |-> "legacy", items |-> <<StoredItem("p1", 1)>>,
                      totalItems |-> 0, totalPrice |-> 0]),
      StorageData(0, [shape |-> "wrapped", items |-> <<StoredItem("p1", 1)>>,
                      totalItems |-> 0, totalPrice |-> 0]) }

\* the stores that hold them: a session that wrote the current version left
\* the version key as well
StoreOf(item) ==
    [key \in Keys |->
        IF key = CART_STORAGE_KEY THEN item
        ELSE IF item.kind = "envelope" /\ item.version = STORAGE_VERSION
             THEN VersionString ELSE Absent]

InitialStores == { StoreOf(item) : item \in InitialItems }

NoReturn ==
    [op |-> "none", key |-> "none", value |-> NoData, default |-> NoData,
     migrated |-> FALSE, tick |-> 0]

Init ==
    /\ storage \in InitialStores
    /\ quota = "ok"
    /\ returned = NoReturn
    /\ form = NoForm
    /\ cart = initialCart
    /\ calls = [c \in CallIds |-> UnusedCall]
    /\ pc = "boot"
    /\ dispatched = NoAction

\* the store is empty: the session starts from the empty cart
InitEmpty ==
    /\ storage = StoreOf(Absent)
    /\ quota = "ok"
    /\ returned = NoReturn
    /\ form = NoForm
    /\ cart = initialCart
    /\ calls = [c \in CallIds |-> UnusedCall]
    /\ pc = "boot"
    /\ dispatched = NoAction

\* the reducer alone, starting from the empty cart
InitReducer ==
    /\ storage = StoreOf(Absent)
    /\ quota = "ok"
    /\ returned = NoReturn
    /\ form = NoForm
    /\ cart = initialCart
    /\ calls = [c \in CallIds |-> UnusedCall]
    /\ pc = "ready"
    /\ dispatched = NoAction

----------------------------------------------------------------------------
(* CartProvider *)

\* quantity of the first line of productId, 0 when there is none
getItemQuantity(c, productId) ==
    LET i == findIndex(c.items, productId)
    IN IF i = 0 THEN 0 ELSE c.items[i].quantity

isInCart(c, productId) ==
    \E i \in 1..Len(c.items) : c.items[i].product.id = productId

\* bound on the model: the line of product stays within MaxLineQty
WithinBounds(c, product, quantity) ==
    getItemQuantity(c, product.id) + quantity <= MaxLineQty

\* a sync effect that hands the cart of the previous render to setStoredCart
Persist_Stale(newCart) ==
    LET saved == saveToStorage(storage, CART_STORAGE_KEY, cart)
    IN /\ storage' = saved.store
       /\ pc' = IF saved.threw THEN "crashed" ELSE pc

\* the sync effect, then useLocalStorage's effect: the cart of the new render
\* is written under the cart key; an exception thrown out of the effect
\* unmounts the provider
Persist(newCart) ==
    LET saved == saveToStorage(storage, CART_STORAGE_KEY, newCart)
    IN /\ storage' = saved.store
       /\ pc' = IF saved.threw THEN "crashed" ELSE pc

\* first render and mount effects of CartProvider: useLocalStorage loads the
\* stored cart, useReducer starts from it, the storage effect saves it and
\* the mount effect reads storedCart.items.length (a TypeError when the
\* loaded value has no items property) and dispatches LOAD_CART
Mount ==
    /\ pc = "boot"
    /\ LET loaded == loadFromStorage(storage, CART_STORAGE_KEY, initialCart)
           storedCart == loaded.result
           saved == saveToStorage(loaded.store, CART_STORAGE_KEY, storedCart)
       IN /\ storage' = saved.store
          /\ IF storedCart.shape # "cart" \/ saved.threw
             THEN cart' = storedCart /\ pc' = "crashed"
             ELSE /\ cart' = IF Len(storedCart.items) > 0
                             THEN LOAD_CART(storedCart, storedCart)
                             ELSE storedCart
                  /\ pc' = "ready"
    /\ UNCHANGED <<calls, dispatched, quota, returned, form>>

NextCall == Cardinality({c \in CallIds : calls[c].status # "unused"}) + 1

Pending == {c \in CallIds : calls[c].status = "pending"}

\* addToCart up to the await: the optimistic dispatch and the start of the
\* confirmation
addToCart(product, quantity, now) ==
    /\ pc = "ready"
    /\ NextCall <= MaxCalls
    /\ WithinBounds(cart, product, quantity)
    /\ cart' = OPTIMISTIC_ADD(cart, product, quantity, now)
    /\ calls' = [calls EXCEPT ![NextCall] =
                    [UnusedCall EXCEPT !.status = "pending",
                                       !.product = product,
                                       !.quantity = quantity,
                                       !.overlapped = Pending]]
    /\ Persist(cart')
    /\ UNCHANGED <<dispatched, quota, returned, form>>

\* a success branch that dispatches ADD_ITEM to confirm the addition
ConfirmSuccess_AddsAgain(c) ==
    /\ pc = "ready"
    /\ calls[c].status = "pending"
    /\ cart' = ADD_ITEM(cart, calls[c].product, calls[c].quantity, 1)
    /\ calls' = [calls EXCEPT ![c].status = "resolved",
                              ![c].quantity = 0,
                              ![c].successToasts = @ + 1]
    /\ Persist(cart')
    /\ UNCHANGED <<dispatched, quota, returned, form>>

\* the confirmation resolves: the rest of the try block (success toast)
ConfirmSuccess(c) ==
    /\ pc = "ready"
    /\ calls[c].status = "pending"
    /\ calls' = [calls EXCEPT ![c].status = "resolved",
                              ![c].quantity = 0,
                              ![c].successToasts = @ + 1]
    /\ UNCHANGED <<cart, storage, pc, dispatched, quota, returned, form>>

\* a catch block that rolls back without telling the user
ConfirmFailure_Silent(c) ==
    /\ pc = "ready"
    /\ calls[c].status = "pending"
    /\ cart' = ROLLBACK_ADD(cart, calls[c].product.id)
    /\ calls' = [calls EXCEPT ![c].status = "rejected",
                              ![c].quantity = 0,
                              ![c].rollbacks = @ + 1]
    /\ Persist(cart')
    /\ UNCHANGED <<dispatched, quota, returned, form>>

\* the confirmation rejects: the catch block (rollback, destructive toast)
ConfirmFailure(c) ==
    /\ pc = "ready"
    /\ calls[c].status = "pending"
    /\ cart' = ROLLBACK_ADD(cart, calls[c].product.id)
    /\ calls' = [calls EXCEPT ![c].status = "rejected",
                              ![c].quantity = 0,
                              ![c].rollbacks = @ + 1,
                              ![c].failureToasts = @ + 1]
    /\ Persist(cart')
    /\ UNCHANGED <<dispatched, quota, returned, form>>

removeFromCart(productId) ==
    /\ pc = "ready"
    /\ cart' = REMOVE_ITEM(cart, productId)
    /\ Persist(cart')
    /\ UNCHANGED <<calls, dispatched, quota, returned, form>>

updateQuantity(productId, quantity) ==
    /\ pc = "ready"
    /\ cart' = UPDATE_QUANTITY(cart, productId, quantity)
    /\ Persist(cart')
    /\ UNCHANGED <<calls, dispatched, quota, returned, form>>

clearCart ==
    /\ pc = "ready"
    /\ cart' = CLEAR_CART(cart)
    /\ Persist(cart')
    /\ UNCHANGED <<calls, dispatched, quota, returned, form>>

Next ==
    \/ Mount
    \/ \E product \in Products, quantity \in AddQtys, now \in Times :
            addToCart(product, quantity, now)
    \/ \E c \in CallIds : ConfirmSuccess(c)
    \/ \E c \in CallIds : ConfirmFailure(c)
    \/ \E productId \in ProductIds : removeFromCart(productId)
    \/ \E productId \in ProductIds, quantity \in UpdateQtys :
            updateQuantity(productId, quantity)
    \/ clearCart

Spec == Init /\ [][Next]_vars

SpecEmpty == InitEmpty /\ [][Next]_vars

\* the confirmation timer of simulateAsyncValidation fires for every call
SpecLive ==
    /\ InitEmpty
    /\ [][Next]_vars
    /\ \A c \in CallIds : WF_vars(ConfirmSuccess(c) \/ ConfirmFailure(c))

\* the store refuses every write (quota exceeded) for the whole session
InitQuota ==
    /\ storage \in {StoreOf(Absent), StoreOf(StorageData(STORAGE_VERSION, CartA))}
    /\ quota = "full"
    /\ returned = NoReturn
    /\ form = NoForm
    /\ cart = initialCart
    /\ calls = [c \in CallIds |-> UnusedCall]
    /\ pc = "boot"
    /\ dispatched = NoAction

SpecQuota == InitQuota /\ [][Next]_vars

\* the page is loaded again: the provider is constructed anew, the timers of
\* the confirmations that were pending are gone with the old page, and
\* localStorage is what the old page left
Restart ==
    /\ pc = "ready"
    /\ pc' = "boot"
    /\ cart' = initialCart
    /\ calls' = [c \in CallIds |->
                    IF calls[c].status = "pending"
                    THEN [calls[c] EXCEPT !.status = "lost"]
                    ELSE calls[c]]
    /\ UNCHANGED <<storage, dispatched, quota, returned, form>>

NextRestart == Next \/ Restart

\* sessions that may be restarted, starting from an empty store
SpecRestart == InitEmpty /\ [][NextRestart]_vars

----------------------------------------------------------------------------
(* The reducer on its own: actions dispatched straight to cartReducer *)

DispatchAddItem(product, quantity, now) ==
    /\ WithinBounds(cart, product, quantity)
    /\ cart' = ADD_ITEM(cart, product, quantity, now)
    /\ dispatched' = [type |-> "ADD_ITEM", productId |-> product.id,
                      quantity |-> quantity]
    /\ UNCHANGED <<storage, calls, pc, quota, returned, form>>

DispatchOptimisticAdd(product, quantity, now) ==
    /\ WithinBounds(cart, product, quantity)
    /\ cart' = OPTIMISTIC_ADD(cart, product, quantity, now)
    /\ dispatched' = [type |-> "OPTIMISTIC_ADD", productId |-> product.id,
                      quantity |-> quantity]
    /\ UNCHANGED <<storage, calls, pc, quota, returned, form>>

DispatchRollbackAdd(productId) ==
    /\ cart' = ROLLBACK_ADD(cart, productId)
    /\ dispatched' = [type |-> "ROLLBACK_ADD", productId |-> productId,
                      quantity |-> 0]
    /\ UNCHANGED <<storage, calls, pc, quota, returned, form>>

DispatchRemoveItem(productId) ==
    /\ cart' = REMOVE_ITEM(cart, productId)
    /\ dispatched' = [type |-> "REMOVE_ITEM", productId |-> productId,
                      quantity |-> 0]
    /\ UNCHANGED <<storage, calls, pc, quota, returned, form>>

DispatchUpdateQuantity(productId, quantity) ==
    /\ cart' = UPDATE_QUANTITY(cart, productId, quantity)
    /\ dispatched' = [type |-> "UPDATE_QUANTITY", productId |-> productId,
                      quantity |-> quantity]
    /\ UNCHANGED <<storage, calls, pc, quota, returned, form>>

DispatchClearCart ==
    /\ cart' = CLEAR_CART(cart)
    /\ dispatched' = [type |-> "CLEAR_CART", productId |-> "none",
                      quantity |-> 0]
    /\ UNCHANGED <<storage, calls, pc, quota, returned, form>>

NextReducer ==
    \/ \E product \in Products, quantity \in AddQtys, now \in ReducerTimes :
            DispatchAddItem(product, quantity, now)
    \/ \E product \in Products, quantity \in AddQtys, now \in ReducerTimes :
            DispatchOptimisticAdd(product, quantity, now)
    \/ \E productId \in ProductIds : DispatchRollbackAdd(productId)
    \/ \E productId \in ProductIds : DispatchRemoveItem(productId)
    \/ \E productId \in ProductIds, quantity \in UpdateQtys :
            DispatchUpdateQuantity(productId, quantity)
    \/ DispatchClearCart

SpecReducer == InitReducer /\ [][NextReducer]_vars

----------------------------------------------------------------------------
(* The persistence utility on its own: saveToStorage and loadFromStorage      *)
(* called with any key, value and default                                     *)

LegacyArray ==
    [shape |-> "legacy", items |-> <<StoredItem("p1", 1)>>,
     totalItems |-> 0, totalPrice |-> 0]

LegacyObject ==
    [shape |-> "wrapped", items |-> <<StoredItem("p1", 1)>>,
     totalItems |-> 0, totalPrice |-> 0]

\* the values handed to saveToStorage
SavedValues ==
    {initialCart, CartA, LegacyObject, Null, Value("nan"), Value("circular")}

\* the defaults handed to loadFromStorage
DefaultValues == {initialCart, LegacyObject, Null}

\* what the cart key may hold when the utility is first called
StorageItems ==
    { Absent, Corrupt,
      StorageData(1, CartA),
      StorageData(0, CartA),
      StorageData(0, LegacyArray),
      StorageData(0, LegacyObject),
      StorageData(0, Null),
      \* JSON that is no envelope: a number, a cart object stored as it is
      Plain(Value("number")),
      Plain(CartA) }

InitStorage ==
    /\ storage \in { StoreOf(item) : item \in StorageItems }
    /\ quota = "ok"
    /\ returned = NoReturn
    /\ form = NoForm
    /\ cart = initialCart
    /\ calls = [c \in CallIds |-> UnusedCall]
    /\ pc = "boot"
    /\ dispatched = NoAction

CallSaveToStorage(key, data) ==
    /\ storage' = saveToStorage(storage, key, data).store
    /\ returned' = [op |-> "save", key |-> key, value |-> data,
                    default |-> NoData, migrated |-> FALSE,
                    tick |-> 1 - returned.tick]
    /\ UNCHANGED <<cart, calls, pc, dispatched, quota, form>>

CallLoadFromStorage(key, defaultValue) ==
    /\ LET loaded == loadFromStorage(storage, key, defaultValue)
       IN /\ storage' = loaded.store
          /\ returned' = [op |-> "load", key |-> key, value |-> loaded.result,
                          default |-> defaultValue,
                          migrated |-> loaded.migrated,
                          tick |-> 1 - returned.tick]
    /\ UNCHANGED <<cart, calls, pc, dispatched, quota, form>>

NextStorage ==
    \/ \E key \in Keys, data \in SavedValues : CallSaveToStorage(key, data)
    \/ \E key \in Keys, defaultValue \in DefaultValues :
            CallLoadFromStorage(key, defaultValue)

SpecStorage == InitStorage /\ [][NextStorage]_vars

----------------------------------------------------------------------------
(* The useForm hook: its callbacks read the state of the render that created *)
(* them (form.rendered) and write through the state setters                   *)

InitForm ==
    /\ form = NoForm
    /\ storage = StoreOf(Absent)
    /\ quota = "ok"
    /\ returned = NoReturn
    /\ cart = initialCart
    /\ calls = [c \in CallIds |-> UnusedCall]
    /\ pc = "boot"
    /\ dispatched = NoAction

Event(op, validated, called) ==
    [op |-> op, validated |-> validated, called |-> called,
     tick |-> 1 - form.event.tick]

\* the callbacks at hand are those of a render of the current state
Current == form.rendered = Rendered(form)

\* React renders the hook again: new callbacks close over the current state
Render ==
    /\ ~Current
    /\ form' = [form EXCEPT !.rendered = Rendered(form)]
    /\ UNCHANGED <<cart, storage, calls, pc, dispatched, quota, returned>>

\* a change event of a field's input; React has rendered the updates of
\* earlier events before it dispatches this one
handleChange(fieldName, value) ==
    LET seen == form.rendered
        error == validateField(fieldName, value)
    IN /\ Current
       /\ form' = [form EXCEPT
                !.values[fieldName] = value,
                !.submitError = IF seen.hasSubmitError THEN NoMessage ELSE @,
                !.errors[fieldName] =
                    IF fieldName \in seen.touched
                    THEN IF error # NoMessage THEN FieldError(error, TRUE)
                         ELSE UndefinedEntry
                    ELSE @,
                !.event = NoEvent]
       /\ UNCHANGED <<cart, storage, calls, pc, dispatched, quota, returned>>

\* a blur event of a field's input
handleBlur(fieldName) ==
    LET seen == form.rendered
        error == validateField(fieldName, seen.values[fieldName])
    IN /\ Current
       /\ form' = [form EXCEPT
                !.errors[fieldName] =
                    FieldError(IF error # NoMessage THEN error ELSE "", TRUE),
                !.event = NoEvent]
       /\ UNCHANGED <<cart, storage, calls, pc, dispatched, quota, returned>>

\* the calls of onSubmit that have not settled
InFlight == {s \in SubmitIds : form.submissions[s].status = "pending"}

\* the slot a new call of onSubmit is recorded in: the first that is free
FreeSlot ==
    {s \in SubmitIds \ InFlight : \A t \in SubmitIds \ InFlight : s <= t}

\* the message the catch block stores for what onSubmit threw or rejected with
SubmitErrorOf(failure) ==
    IF failure.isError THEN failure.message ELSE "Submission failed"

\* handleSubmit up to its await: the guard on isSubmitting, setSubmitError,
\* validateForm, setIsSubmitting and the call of onSubmit, which returns a
\* promise (outcome "pending") or throws before it returns one ("throws")
handleSubmit(outcome) ==
    LET seen == form.rendered
        validation == validateForm(seen.values)
    IN /\ IF seen.isSubmitting
          THEN /\ outcome = "none"
               /\ form' = [form EXCEPT
                        !.event = Event("handleSubmit", FALSE, FALSE)]
          ELSE IF ~validation.isValid
          THEN /\ outcome = "none"
               /\ form' = [form EXCEPT
                        !.submitError = NoMessage,
                        !.errors = validation.newErrors,
                        !.event = Event("handleSubmit", TRUE, FALSE)]
          ELSE IF outcome = "pending"
          THEN \E s \in FreeSlot :
                form' = [form EXCEPT
                        !.submitError = NoMessage,
                        !.errors = validation.newErrors,
                        !.isSubmitting = TRUE,
                        !.submissions[s] =
                            [status |-> "pending", values |-> seen.values],
                        !.event = Event("handleSubmit", TRUE, TRUE)]
          ELSE \E failure \in Failures :
                /\ outcome = "throws"
                /\ form' = [form EXCEPT
                        !.submitError = SubmitErrorOf(failure),
                        !.errors = validation.newErrors,
                        !.isSubmitting = FALSE,
                        !.event = Event("handleSubmit", TRUE, TRUE)]
       /\ UNCHANGED <<cart, storage, calls, pc, dispatched, quota, returned>>

\* a success branch that puts the initial values back and keeps the errors
SubmitResolves_KeepsErrors(s) ==
    /\ form.submissions[s].status = "pending"
    /\ form' = [form EXCEPT
                !.values = initialValues,
                !.isSubmitting = FALSE,
                !.submissions[s] = NoSubmission,
                !.event = Event("resolved", FALSE, FALSE)]
    /\ UNCHANGED <<cart, storage, calls, pc, dispatched, quota, returned>>

\* the promise of onSubmit resolves: the form is reset, then the finally block
SubmitResolves(s) ==
    /\ form.submissions[s].status = "pending"
    /\ form' = [form EXCEPT
                !.values = initialValues,
                !.errors = NoErrors,
                !.isSubmitting = FALSE,
                !.submissions[s] =
                    NoSubmission,
                !.event = Event("resolved", FALSE, FALSE)]
    /\ UNCHANGED <<cart, storage, calls, pc, dispatched, quota, returned>>

\* a catch block that also puts the initial values back
SubmitRejects_Resets(s, failure) ==
    /\ form.submissions[s].status = "pending"
    /\ form' = [form EXCEPT
                !.values = initialValues,
                !.submitError = SubmitErrorOf(failure),
                !.isSubmitting = FALSE,
                !.submissions[s] = NoSubmission,
                !.event = Event("rejected", FALSE, FALSE)]
    /\ UNCHANGED <<cart, storage, calls, pc, dispatched, quota, returned>>

\* a rejection without the finally block: isSubmitting stays as it is
SubmitRejects_StaysSubmitting(s, failure) ==
    /\ form.submissions[s].status = "pending"
    /\ form' = [form EXCEPT
                !.submitError = SubmitErrorOf(failure),
                !.submissions[s] = NoSubmission,
                !.event = Event("rejected", FALSE, FALSE)]
    /\ UNCHANGED <<cart, storage, calls, pc, dispatched, quota, returned>>

\* the promise of onSubmit rejects: the catch block, then the finally block
SubmitRejects(s, failure) ==
    /\ form.submissions[s].status = "pending"
    /\ form' = [form EXCEPT
                !.submitError = SubmitErrorOf(failure),
                !.isSubmitting = FALSE,
                !.submissions[s] =
                    NoSubmission,
                !.event = Event("rejected", FALSE, FALSE)]
    /\ UNCHANGED <<cart, storage, calls, pc, dispatched, quota, returned>>

reset ==
    /\ form' = [form EXCEPT
                !.values = initialValues,
                !.errors = NoErrors,
                !.submitError = NoMessage,
                !.event = NoEvent]
    /\ UNCHANGED <<cart, storage, calls, pc, dispatched, quota, returned>>

NextForm ==
    \/ Render
    \/ \E fieldName \in Fields :
        \E value \in InputValues[fieldName] : handleChange(fieldName, value)
    \/ \E fieldName \in Fields : handleBlur(fieldName)
    \/ \E outcome \in {"none", "pending", "throws"} : handleSubmit(outcome)
    \/ \E s \in SubmitIds : SubmitResolves(s)
    \/ \E s \in SubmitIds, failure \in Failures : SubmitRejects(s, failure)
    \/ reset

SpecForm == InitForm /\ [][NextForm]_vars

\* every promise returned by onSubmit settles
SpecFormLive ==
    /\ InitForm
    /\ [][NextForm]_vars
    /\ \A s \in SubmitIds :
        WF_vars(SubmitResolves(s) \/ \E failure \in Failures : SubmitRejects(s, failure))

----------------------------------------------------------------------------
(* Properties *)

RECURSIVE SumQuantity(_)
SumQuantity(items) ==
    IF items = << >> THEN 0
    ELSE Head(items).quantity + SumQuantity(Tail(items))

RECURSIVE SumPrice(_)
SumPrice(items) ==
    IF items = << >> THEN 0
    ELSE Head(items).quantity * Head(items).product.price
         + SumPrice(Tail(items))

TotalsMatch(c) ==
    /\ c.totalItems = SumQuantity(c.items)
    /\ c.totalPrice = SumPrice(c.items)

\* C1: after every AddItem, RemoveItem and UpdateQuantity applied by the
\* reducer from the empty cart (and after every other action the reducer
\* derives from its state), totalItems is the sum of the quantities and
\* totalPrice the sum of quantity * price.
C1_ReducerTotals == TotalsMatch(cart)

\* the spec's scenario plus one more action: p1 x 2 and p2 x 1, then an
\* UpdateQuantity of p2 to 2
C1_Witness ==
    /\ dispatched.type = "UPDATE_QUANTITY"
    /\ dispatched.quantity = 2
    /\ Len(cart.items) = 2
    /\ cart.totalItems = 4
    /\ cart.totalPrice = 300

\* C2: the totals invariant holds after every transition of the mounted
\* provider, hydration from the stored envelope included.
C2_TotalsAfterHydration == pc = "ready" => TotalsMatch(cart)

\* C3: from the empty cart, through the provider's API, no two lines have
\* the same product id.
C3_OneLinePerProduct ==
    pc = "ready" =>
        \A i, j \in 1..Len(cart.items) :
            cart.items[i].product.id = cart.items[j].product.id => i = j

\* two calls for the same product were merged into one line
C3_Witness ==
    /\ Len(cart.items) = 1
    /\ \E c, d \in CallIds :
        /\ c # d
        /\ calls[c].status # "unused"
        /\ calls[d].status # "unused"
        /\ calls[c].product = calls[d].product
        /\ getItemQuantity(cart, calls[c].product.id) = MaxLineQty

\* C4: with add quantities >= 1 and any integer as UpdateQuantity argument,
\* every stored line has quantity >= 1.
C4_QuantityPositive ==
    \A i \in 1..Len(cart.items) : cart.items[i].quantity >= 1

\* an UpdateQuantity with a negative argument was applied and lines remain
C4_Witness ==
    /\ dispatched.type = "UPDATE_QUANTITY"
    /\ dispatched.quantity < 0
    /\ ~isInCart(cart, dispatched.productId)
    /\ Len(cart.items) = 2

\* the step in which call c is issued, settles with success, or is rejected
Issued(c) == calls[c].status = "unused" /\ calls'[c].status = "pending"

Resolved(c) == calls[c].status = "pending" /\ calls'[c].status = "resolved"

Rejected(c) == calls[c].status = "pending" /\ calls'[c].status = "rejected"

\* calls c and d were in flight at the same time
Overlap(c, d) == c \in calls[d].overlapped \/ d \in calls[c].overlapped

\* C5: in the state right after addToCart(product, q), with the confirmation
\* still in flight, the cart has a line for product whose quantity is the
\* quantity before the call plus q.
C5_AddAppliedBeforeConfirmation ==
    [][\A c \in CallIds :
        Issued(c) =>
            /\ isInCart(cart', calls'[c].product.id)
            /\ getItemQuantity(cart', calls'[c].product.id)
                 = getItemQuantity(cart, calls'[c].product.id)
                   + calls'[c].quantity]_vars

\* a call for 1 unit is in flight and the line it was added to holds 3
C5_Witness ==
    \E c \in CallIds :
        /\ calls[c].status = "pending"
        /\ calls[c].quantity = 1
        /\ getItemQuantity(cart, calls[c].product.id) = 3

\* C6: when the confirmation of a call fails, one RollbackAdd is dispatched
\* and one failure notification emitted, and right after that step the cart
\* has no line for the call's product.
C6_FailureRollsBack ==
    [][\A c \in CallIds :
        Rejected(c) =>
            /\ ~isInCart(cart', calls[c].product.id)
            /\ calls'[c].rollbacks = calls[c].rollbacks + 1
            /\ calls'[c].failureToasts = calls[c].failureToasts + 1
            /\ calls'[c].successToasts = calls[c].successToasts]_vars

\* a call was rejected, its line is gone and another line is still there
C6_Witness ==
    \E c \in CallIds :
        /\ calls[c].status = "rejected"
        /\ calls[c].failureToasts = 1
        /\ ~isInCart(cart, calls[c].product.id)
        /\ Len(cart.items) = 1
        /\ storage[CART_STORAGE_KEY].data = cart

\* C7: when the confirmation of a call succeeds, the step leaves items,
\* totalItems and totalPrice as they were and emits a success notification
\* only.
C7_SuccessChangesNothing ==
    [][\A c \in CallIds :
        Resolved(c) =>
            /\ cart' = cart
            /\ calls'[c].successToasts = calls[c].successToasts + 1
            /\ calls'[c].failureToasts = calls[c].failureToasts
            /\ calls'[c].rollbacks = calls[c].rollbacks]_vars

\* a call was confirmed and its product is in the cart
C7_Witness ==
    \E c \in CallIds :
        /\ calls[c].status = "resolved"
        /\ calls[c].successToasts = 1
        /\ calls[c].rollbacks = 0
        /\ getItemQuantity(cart, calls[c].product.id) = 2

\* C8: when a call for a product is rejected while the line of that product
\* holds more than the call added, or while another call for the same product
\* overlaps it (in flight or already confirmed), the rollback removes the
\* whole line: the cart loses the full quantity of the line.
C8_RollbackRemovesWholeLine ==
    [][\A c \in CallIds :
        LET id == calls[c].product.id
            line == getItemQuantity(cart, id)
        IN (/\ Rejected(c)
            /\ \/ line > calls[c].quantity
               \/ \E d \in CallIds \ {c} :
                    Overlap(c, d) /\ calls[d].product.id = id)
           => /\ ~isInCart(cart', id)
              /\ SumQuantity(cart'.items) = SumQuantity(cart.items) - line
              /\ Len(cart'.items) = Len(cart.items) - (IF line > 0 THEN 1 ELSE 0)]_vars

\* two overlapping calls for one product, one confirmed and one rejected:
\* nothing of either is left
C8_Witness ==
    \E c, d \in CallIds :
        /\ Overlap(c, d)
        /\ calls[c].product = calls[d].product
        /\ calls[c].status = "rejected"
        /\ calls[d].status = "resolved"
        /\ ~isInCart(cart, calls[c].product.id)
        /\ cart.totalItems = 0

\* C9: a rejected confirmation for product P leaves the lines of all other
\* products as they were (presence, quantity, order), and addToCart can be
\* applied whatever confirmations are in flight: it waits for none of them.
C9_OtherProductsIndependent ==
    /\ [][\A c \in CallIds :
            Rejected(c) =>
                filterNotId(cart'.items, calls[c].product.id)
                    = filterNotId(cart.items, calls[c].product.id)]_vars
    /\ [](\A product \in Products, quantity \in AddQtys :
            (/\ pc = "ready"
             /\ NextCall <= MaxCalls
             /\ WithinBounds(cart, product, quantity))
            => ENABLED addToCart(product, quantity, 1))

\* two overlapping calls for different products: one was rejected, the line
\* of the other is in the cart with the quantity that call asked for
C9_Witness ==
    \E c, d \in CallIds :
        /\ Overlap(c, d)
        /\ calls[c].product # calls[d].product
        /\ calls[c].status = "rejected"
        /\ calls[d].status = "pending"
        /\ ~isInCart(cart, calls[c].product.id)
        /\ getItemQuantity(cart, calls[d].product.id) = calls[d].quantity
        /\ Len(cart.items) = 2

\* the outcome of a settled call: one success notification and no rollback,
\* or one rollback and one failure notification
SuccessOutcome(c) ==
    /\ calls[c].status = "resolved"
    /\ calls[c].successToasts = 1
    /\ calls[c].failureToasts = 0
    /\ calls[c].rollbacks = 0

FailureOutcome(c) ==
    /\ calls[c].status = "rejected"
    /\ calls[c].successToasts = 0
    /\ calls[c].failureToasts = 1
    /\ calls[c].rollbacks = 1

\* C10: with the confirmation timer firing, every addToCart call ends in
\* exactly one outcome, success or failure, never both and never neither;
\* before it settles it has produced nothing, and once settled its outcome
\* stays, whatever the other calls do.
C10_ExactlyOneOutcome ==
    /\ \A c \in CallIds :
        (calls[c].status = "pending")
            ~> (SuccessOutcome(c) \/ FailureOutcome(c))
    /\ [](\A c \in CallIds :
            /\ calls[c].status \in {"unused", "pending"} =>
                    /\ calls[c].successToasts = 0
                    /\ calls[c].failureToasts = 0
                    /\ calls[c].rollbacks = 0
            /\ calls[c].status \in {"resolved", "rejected"} =>
                    (SuccessOutcome(c) \/ FailureOutcome(c)))
    /\ [][\A c \in CallIds :
            /\ SuccessOutcome(c) => SuccessOutcome(c)'
            /\ FailureOutcome(c) => FailureOutcome(c)']_vars

\* two overlapping calls ended differently
C10_Witness ==
    \E c, d \in CallIds :
        /\ Overlap(c, d)
        /\ SuccessOutcome(c)
        /\ FailureOutcome(d)

\* the item stored under the cart key
CartItemStored == storage[CART_STORAGE_KEY]

\* C11: after every change of the cart (optimistic add, rollback, remove,
\* quantity update, clear), once the step's effects have run, the envelope
\* under the cart key carries the current version and the in-memory cart.
C11_SnapshotPersisted ==
    pc = "ready" =>
        /\ CartItemStored.kind = "envelope"
        /\ CartItemStored.version = STORAGE_VERSION
        /\ CartItemStored.data = cart

\* one call was rolled back, another is in flight, and the store holds the
\* cart with the line of the call in flight
C11_Witness ==
    /\ pc = "ready"
    /\ \E c, d \in CallIds :
        /\ calls[c].status = "rejected"
        /\ calls[d].status = "pending"
        /\ isInCart(cart, calls[d].product.id)
    /\ CartItemStored.data = cart
    /\ CartItemStored.data.totalItems > 0

\* C12: when the provider mounts on a current-version envelope holding a
\* non-empty cart, the cart after hydration is the persisted cart (items,
\* order, totals); when nothing is stored, it is the empty cart.
C12_HydratedCartIsStoredCart ==
    [][(pc = "boot" /\ pc' # "boot") =>
        /\ (/\ CartItemStored.kind = "envelope"
            /\ CartItemStored.version = STORAGE_VERSION
            /\ CartItemStored.data.shape = "cart"
            /\ Len(CartItemStored.data.items) > 0)
           => (cart' = CartItemStored.data /\ pc' = "ready")
        /\ CartItemStored.kind = "absent"
           => (cart' = initialCart /\ pc' = "ready")]_vars

\* the provider has mounted on the stored cart p1 x 2 and nothing was done yet
C12_Witness ==
    /\ pc = "ready"
    /\ Len(cart.items) = 1
    /\ cart.items[1].product.id = "p1"
    /\ cart.items[1].addedAt = 0
    /\ cart.totalItems = 2
    /\ \A c \in CallIds : calls[c].status = "unused"

\* the steps of the persistence utility: a load, and a load that directly
\* follows a save or a load of the same key
Loads == returned'.op = "load" /\ returned'.tick # returned.tick

LoadsAfter(op) ==
    /\ Loads
    /\ returned.op = op
    /\ returned'.key = returned.key

Serializable(value) == value.shape \notin {"nan", "circular"}

\* C13: for every key and every serializable value X, saveToStorage(key, X)
\* followed by loadFromStorage(key, d) returns X whatever d is, and the load
\* migrates nothing and writes nothing.
C13_RoundTrip ==
    [][(LoadsAfter("save") /\ Serializable(returned.value)) =>
        /\ returned'.value = returned.value
        /\ ~returned'.migrated
        /\ storage' = storage]_vars

\* C14: loading a key whose stored string does not parse returns the default
\* that was passed in.
C14_CorruptYieldsDefault ==
    [][(Loads /\ storage[returned'.key].kind = "corrupt") =>
        returned'.value = returned'.default]_vars


\* a load that finds, under its key, an envelope of a lower version
LoadsOldEnvelope ==
    /\ Loads
    /\ storage[returned'.key].kind = "envelope"
    /\ storage[returned'.key].version < STORAGE_VERSION

\* the load wrote what it returns back under its key at the current version
WrittenBack ==
    /\ returned'.migrated
    /\ storage'[returned'.key] =
            JSON_stringify(StorageData(STORAGE_VERSION, returned'.value))
    /\ storage'[VERSION_KEY] = VersionString

\* a load that directly follows a migrating load of the same key migrates
\* nothing, writes nothing and returns the same data
SecondLoadSettled ==
    (LoadsAfter("load") /\ returned.migrated) =>
        /\ ~returned'.migrated
        /\ returned'.value = returned.value
        /\ storage' = storage

C16_LegacyArrayMigrated ==
    [][(/\ LoadsOldEnvelope
        /\ returned'.key = CART_STORAGE_KEY
        /\ storage[CART_STORAGE_KEY].data.shape = "legacy") =>
            /\ returned'.value.shape = "cart"
            /\ returned'.value.items = storage[CART_STORAGE_KEY].data.items
            /\ storage'[CART_STORAGE_KEY].kind = "envelope"
            /\ storage'[CART_STORAGE_KEY].version = STORAGE_VERSION
            /\ storage'[CART_STORAGE_KEY].data = returned'.value]_vars


\* saveToStorage returns normally whatever it is asked to save, and a save
\* that fails (the store refuses the write, or the value does not serialize)
\* leaves the store as it was
SaveNeverThrows ==
    \A key \in Keys, data \in SavedValues :
        LET saved == saveToStorage(storage, key, data)
        IN /\ ~saved.threw
           /\ (quota = "full" \/ data.shape = "circular") => saved.store = storage

\* every cart action of the provider can still be taken
CartActionsApply ==
    /\ ENABLED clearCart
    /\ \A productId \in ProductIds :
        /\ ENABLED removeFromCart(productId)
        /\ ENABLED updateQuantity(productId, 1)

\* C17: a failure of the store during saveToStorage is caught: the save
\* returns normally (the provider is not torn down), the store keeps what it
\* held, the in-memory cart is the one the reducer produced (its totals are
\* those of its items when the hydrated cart's were), and the cart actions
\* still apply afterwards.
C17_StoreFailureIsCaught ==
    /\ pc # "crashed"
    /\ SaveNeverThrows
    /\ storage \in {StoreOf(Absent), StoreOf(StorageData(STORAGE_VERSION, CartA))}
    /\ pc = "ready" => (TotalsMatch(cart) /\ CartActionsApply)

\* with the store full, an add was rolled back and a later add applied: the
\* cart differs from what the store holds
C17_Witness ==
    /\ quota = "full"
    /\ pc = "ready"
    /\ \E c, d \in CallIds :
        /\ calls[c].status = "rejected"
        /\ calls[d].status = "resolved"
        /\ isInCart(cart, calls[d].product.id)
    /\ storage[CART_STORAGE_KEY] = Absent


\* the line with the given quantity that ADD_ITEM creates for a product
NewLine(product, quantity, now) ==
    [product |-> product, quantity |-> quantity, addedAt |-> now]

\* adding A, then B, then A again to a cart that holds neither
AddABA(state, A, B, qA, qB, qA2, t1, t2, t3) ==
    ADD_ITEM(ADD_ITEM(ADD_ITEM(state, A, qA, t1), B, qB, t2), A, qA2, t3)

\* C18: adding product A, then product B, then A again yields, after the lines
\* the cart already had, exactly two lines: A with the sum of both quantities
\* where it was first inserted, followed by B; and every ADD_ITEM of a product
\* that is in the cart keeps the number of lines and every line's place, adds
\* the quantity to that product's line and leaves the other lines alone.
C18_ReAddMergesInPlace ==
    /\ [](\A A, B \in Products :
            (A # B /\ ~isInCart(cart, A.id) /\ ~isInCart(cart, B.id)) =>
                \A qA, qB, qA2 \in AddQtys, t1, t2, t3 \in ReducerTimes :
                    AddABA(cart, A, B, qA, qB, qA2, t1, t2, t3).items =
                        cart.items \o <<NewLine(A, qA + qA2, t1),
                                        NewLine(B, qB, t2)>>)
    /\ [][(dispatched'.type = "ADD_ITEM"
            /\ isInCart(cart, dispatched'.productId)) =>
            LET at == findIndex(cart.items, dispatched'.productId)
            IN /\ Len(cart'.items) = Len(cart.items)
               /\ \A index \in 1..Len(cart.items) :
                    cart'.items[index] =
                        IF index = at
                        THEN [cart.items[index] EXCEPT
                                !.quantity = @ + dispatched'.quantity]
                        ELSE cart.items[index]]_vars

\* A, then B, then A again: p1 holds the sum at index 1, p2 follows
C18_Witness ==
    /\ dispatched.type = "ADD_ITEM"
    /\ dispatched.productId = "p1"
    /\ Len(cart.items) = 2
    /\ cart.items[1].product.id = "p1"
    /\ cart.items[1].quantity = 3
    /\ cart.items[2].product.id = "p2"
    /\ cart.items[2].addedAt > cart.items[1].addedAt


\* C19: for every cart and every product id, UPDATE_QUANTITY with a quantity
\* that is zero or negative yields the cart that REMOVE_ITEM yields: the
\* product has no line in it, the other lines are kept in order and the totals
\* are those of the remaining lines; the cart after such a dispatch holds no
\* line for the product.
C19_NonPositiveUpdateRemoves ==
    /\ \A productId \in ProductIds, quantity \in UpdateQtys :
        quantity <= 0 =>
            LET updated == UPDATE_QUANTITY(cart, productId, quantity)
            IN /\ updated = REMOVE_ITEM(cart, productId)
               /\ updated.items = filterNotId(cart.items, productId)
               /\ ~isInCart(updated, productId)
               /\ TotalsMatch(updated)
    /\ (dispatched.type = "UPDATE_QUANTITY" /\ dispatched.quantity <= 0) =>
            (~isInCart(cart, dispatched.productId) /\ TotalsMatch(cart))

\* a line was removed by an update to quantity zero; another line remains
C19_Witness ==
    /\ dispatched.type = "UPDATE_QUANTITY"
    /\ dispatched.quantity = 0
    /\ dispatched.productId = "p1"
    /\ Len(cart.items) = 1
    /\ cart.items[1].product.id = "p2"
    /\ cart.totalItems = cart.items[1].quantity

\* C20: UPDATE_QUANTITY for a product id that has no line in the cart leaves
\* the cart as it is, whatever the quantity: same item list, same totalItems,
\* same totalPrice, and no line for the id.
C20_AbsentUpdateIsNoOp ==
    pc = "ready" =>
        \A productId \in ProductIds, quantity \in UpdateQtys :
            ~isInCart(cart, productId) =>
                LET updated == UPDATE_QUANTITY(cart, productId, quantity)
                IN /\ updated.items = cart.items
                   /\ updated.totalItems = cart.totalItems
                   /\ updated.totalPrice = cart.totalPrice
                   /\ ~isInCart(updated, productId)


\* C21: for every cart that has no line for product P, OPTIMISTIC_ADD of P
\* followed directly by ROLLBACK_ADD of P's id gives back the cart as it was
\* before the add: the same items in the same order and the same totals.
C21_AddThenRollbackRestores ==
    pc = "ready" =>
        \A product \in Products, quantity \in AddQtys, now \in ReducerTimes :
            ~isInCart(cart, product.id) =>
                LET added == OPTIMISTIC_ADD(cart, product, quantity, now)
                    rolledBack == ROLLBACK_ADD(added, product.id)
                IN /\ isInCart(added, product.id)
                   /\ rolledBack.items = cart.items
                   /\ rolledBack.totalItems = cart.totalItems
                   /\ rolledBack.totalPrice = cart.totalPrice


\* C22: at most one call of onSubmit is in flight at any time, also when
\* handleSubmit is invoked again before the render that shows
\* isSubmitting = true to it.
C22_OneSubmissionInFlight == Cardinality(InFlight) <= 1


\* the steps of the form: an invocation of handleSubmit, one that ran
\* validateForm, one in which onSubmit threw, and the settling of a promise
SubmitStep ==
    form'.event.op = "handleSubmit" /\ form'.event.tick # form.event.tick

ValidatedStep == SubmitStep /\ form'.event.validated

ThrownStep ==
    /\ SubmitStep
    /\ form'.event.called
    /\ form'.submissions = form.submissions

RejectedStep ==
    form'.event.op = "rejected" /\ form'.event.tick # form.event.tick

ResolvedStep ==
    form'.event.op = "resolved" /\ form'.event.tick # form.event.tick

SubmitErrors == {SubmitErrorOf(failure) : failure \in Failures}

\* the fields of which the given values fail a rule
Failing(values) ==
    {fieldName \in Fields :
        validateField(fieldName, values[fieldName]) # NoMessage}

\* C23: when onSubmit throws or its promise rejects, the step stores a
\* submit-level error message and leaves every field value as it is: no field
\* is put back to its initial value.
C23_FailureKeepsValues ==
    [][(RejectedStep \/ ThrownStep) =>
        /\ form'.submitError \in SubmitErrors
        /\ form'.values = form.values]_vars

\* a rejection left the name the user typed, with the message for a rejection
\* that is not an Error
C23_Witness ==
    /\ form.event.op = "rejected"
    /\ form.submitError = "Submission failed"
    /\ form.values["name"] = <<"a", "a">>
    /\ form.values # initialValues

C25_ValidateFormTouchesAll ==
    [][ValidatedStep =>
        /\ \A fieldName \in Fields : form'.errors[fieldName].touched
        /\ form'.event.called <=> Failing(form.rendered.values) = {}]_vars

\* C26: when the promise of onSubmit resolves, every field value is its
\* configured initial value and the errors map is empty.
C26_SuccessResets ==
    [][ResolvedStep =>
        /\ form'.values = initialValues
        /\ form'.errors = NoErrors]_vars

\* a submission has resolved; the render before it shows the submitted name
\* and a touched field
C26_Witness ==
    /\ form.event.op = "resolved"
    /\ form.values = initialValues
    /\ form.errors = NoErrors
    /\ form.rendered.values["name"] = <<"a", "a">>
    /\ form.rendered.touched # {}


\* C30: every call of onSubmit that is in flight eventually settles, and the
\* step in which it settles (resolved or rejected, or thrown before a promise
\* was returned) leaves isSubmitting false; isSubmitting is true only while a
\* call of onSubmit is in flight.
C30_SubmissionEnds ==
    /\ \A s \in SubmitIds :
        (form.submissions[s].status = "pending")
            ~> (form.submissions[s].status # "pending")
    /\ [](form.isSubmitting => InFlight # {})
    /\ [][(ResolvedStep \/ RejectedStep \/ ThrownStep) =>
            ~form'.isSubmitting]_vars

\* a submission was rejected and the form, rendered again, is not submitting:
\* handleSubmit gets past its guard
C30_Witness ==
    /\ form.event.op = "rejected"
    /\ ~form.isSubmitting
    /\ InFlight = {}
    /\ Current
    /\ form.values["name"] = <<"a", "a">>


\* the lines of other products than the given one, in their order
OtherLines(items, productId) ==
    SelectSeq(items, LAMBDA item : item.product.id # productId)

\* C27: REMOVE_ITEM and ROLLBACK_ADD leave exactly the lines of the other
\* products, in their order and with their product, quantity and addedAt;
\* UPDATE_QUANTITY with a positive quantity keeps every line at its index,
\* changes the quantity of the updated product's line only and keeps that
\* line's product and addedAt.
C27_OtherLinesKeptInOrder ==
    [][/\ dispatched'.type \in {"REMOVE_ITEM", "ROLLBACK_ADD"} =>
            cart'.items = OtherLines(cart.items, dispatched'.productId)
       /\ (dispatched'.type = "UPDATE_QUANTITY" /\ dispatched'.quantity > 0) =>
            /\ Len(cart'.items) = Len(cart.items)
            /\ \A index \in 1..Len(cart.items) :
                cart'.items[index] =
                    IF cart.items[index].product.id = dispatched'.productId
                    THEN [product |-> cart.items[index].product,
                          quantity |-> dispatched'.quantity,
                          addedAt |-> cart.items[index].addedAt]
                    ELSE cart.items[index]]_vars

\* the middle line of three was removed: the first and the last are left, in
\* the order they were added
C27_Witness ==
    /\ dispatched.type = "REMOVE_ITEM"
    /\ dispatched.productId = "p2"
    /\ Len(cart.items) = 2
    /\ cart.items[1].product.id = "p1"
    /\ cart.items[2].product.id = "p3"
    /\ cart.items[1].addedAt < cart.items[2].addedAt


Lost(c) == calls[c].status = "lost"

\* C28: while the confirmation of an add is in flight, the item it added to
\* the cart is in the envelope stored under the cart key; a restart leaves
\* the store as it is and ends the confirmation without an outcome; the cart
\* hydrated after the restart holds the stored item with its quantity; and
\* the interrupted call never rolls back or notifies afterwards.
C28_UnconfirmedItemSurvivesRestart ==
    /\ [](pc = "ready" =>
            \A c \in CallIds :
                (calls[c].status = "pending"
                    /\ isInCart(cart, calls[c].product.id)) =>
                    getItemQuantity(CartItemStored.data, calls[c].product.id)
                        = getItemQuantity(cart, calls[c].product.id))
    /\ [][(pc = "ready" /\ pc' = "boot") =>
            /\ storage' = storage
            /\ \A c \in CallIds : calls[c].status = "pending" => Lost(c)']_vars
    /\ [][(pc = "boot" /\ pc' = "ready") =>
            \A c \in CallIds :
                Lost(c) =>
                    getItemQuantity(cart', calls[c].product.id) =
                        getItemQuantity(CartItemStored.data,
                                        calls[c].product.id)]_vars
    /\ [](\A c \in CallIds :
            Lost(c) => /\ calls[c].rollbacks = 0
                       /\ calls[c].successToasts = 0
                       /\ calls[c].failureToasts = 0)
    /\ [][\A c \in CallIds : Lost(c) => Lost(c)']_vars

\* the session was restarted while the add of p1 was in flight: the cart
\* hydrated from the store holds p1, and its confirmation is gone
C28_Witness ==
    /\ pc = "ready"
    /\ \E c \in CallIds :
        /\ Lost(c)
        /\ calls[c].product.id = "p1"
        /\ getItemQuantity(cart, "p1") = calls[c].quantity
        /\ calls[c].rollbacks = 0
    /\ Pending = {}
    /\ CartItemStored.data = cart


\* C29: loading a key whose stored string parses as JSON but is no envelope
\* returns the default that was passed in; and a load never returns anything
\* but the default, the data of the envelope it parsed (or substituted for a
\* string that does not parse), or that data migrated.
C29_NonEnvelopeYieldsDefault ==
    [][Loads =>
        LET item == storage[returned'.key]
            parsed == safeJsonParse(item, StorageData(0, returned'.default))
        IN /\ item.kind = "plain" => returned'.value = returned'.default
           /\ \/ returned'.value = returned'.default
              \/ /\ parsed.kind = "envelope"
                 /\ returned'.value \in
                        {parsed.data,
                         migrateData(parsed.data, parsed.version)}]_vars

====
